---- MODULE Spec2Model ----
(***************************************************************************)
(* TransactionPayloadEvent of rust_mysql_common                            *)
(* (src/binlog/events/transaction_payload_event.rs): the record, its       *)
(* builder methods, the field-tagged header parser (deserialize), the      *)
(* serializer and decompress_payload.                                      *)
(*                                                                         *)
(* Bytes are naturals 0..255 and buffers are sequences of bytes.  The      *)
(* length-encoded integer primitives, the ParseBuf cursor operations and   *)
(* the two wire enumerations live in other files of the crate; they are    *)
(* modelled here from the wire format the specification describes.         *)
(* usize is 64 bits wide, so `x as usize` of a u64 is the identity; every  *)
(* value the model draws is far below 2^64 and no sum can wrap.            *)
(***************************************************************************)
EXTENDS Integers, Sequences, FiniteSets, TLC

VARIABLES
    phase,   \* "wire": bytes wait to be parsed; "loop": inside deserialize's
             \* while loop; "returned": deserialize has returned (or panicked);
             \* "record": the caller holds a built record; "consumed": the
             \* record was consumed by decompress_payload
    fields,  \* the field chunks the wire input was assembled from (history)
    tail,    \* the bytes that follow those chunks in the wire input (history)
    input,   \* the bytes handed to deserialize
    p,       \* the locals of deserialize: cursor, ob, flags, outcome
    rec,     \* the TransactionPayloadEvent the caller holds, or NoRecord
    src,     \* the record `input` was serialized from, or NoRecord
    out,     \* what decompress_payload returned
    rounds,  \* number of serialize calls so far
    edits    \* number of with_* calls so far

vars == <<phase, fields, tail, input, p, rec, src, out, rounds, edits>>

----------------------------------------------------------------------------
(* Bounds of the model *)

MaxFields == 3      \* field chunks in a wire input
MaxPayload == 2     \* payload bytes
MaxRounds == 1      \* serialize calls in one behaviour
MaxEdits == 1       \* with_* calls in one behaviour
MaxPlain == 1       \* bytes the external decompressor writes
BigValue == 251     \* a value that needs the three-byte integer encoding
UnknownTag == 4     \* a tag that is no known field

----------------------------------------------------------------------------
(* Sequences *)

SeqsUpTo(S, n) == UNION {[1..k -> S] : k \in 0..n}

Repeat(b, n) == [i \in 1..n |-> b]

Drop(buf, n) == SubSeq(buf, n + 1, Len(buf))

Min(a, b) == IF a < b THEN a ELSE b

----------------------------------------------------------------------------
(* Wire enumerations (binlog::consts) *)

OTW_PAYLOAD_HEADER_END_MARK == 0
OTW_PAYLOAD_SIZE_FIELD == 1
OTW_PAYLOAD_COMPRESSION_TYPE_FIELD == 2
OTW_PAYLOAD_UNCOMPRESSED_SIZE_FIELD == 3

\* TransactionPayloadFields::try_from
TryFromFields(v) ==
    IF v \in {OTW_PAYLOAD_HEADER_END_MARK, OTW_PAYLOAD_SIZE_FIELD,
              OTW_PAYLOAD_COMPRESSION_TYPE_FIELD,
              OTW_PAYLOAD_UNCOMPRESSED_SIZE_FIELD}
    THEN [ok |-> TRUE, val |-> v]
    ELSE [ok |-> FALSE, val |-> v]

CompressionTypes == {"NONE", "ZSTD"}

\* `algorithm as u64`
CompressionTypeAsU64(a) == IF a = "NONE" THEN 0 ELSE 1

\* TransactionPayloadCompressionType::try_from
TryFromCompressionType(v) ==
    IF v = 0 THEN [ok |-> TRUE, val |-> "NONE"]
    ELSE IF v = 1 THEN [ok |-> TRUE, val |-> "ZSTD"]
    ELSE [ok |-> FALSE, val |-> "NONE"]

----------------------------------------------------------------------------
(* Length-encoded integers and the byte cursor (crate::io, crate::misc) *)

RECURSIVE LeUint(_)
LeUint(bs) == IF bs = <<>> THEN 0 ELSE Head(bs) + 256 * LeUint(Tail(bs))

RECURSIVE LeBytes(_, _)
LeBytes(v, n) == IF n = 0 THEN <<>> ELSE <<v % 256>> \o LeBytes(v \div 256, n - 1)

\* crate::misc::lenenc_int_len
LenencIntLen(v) ==
    IF v < 251 THEN 1 ELSE IF v < 65536 THEN 3 ELSE IF v < 16777216 THEN 4 ELSE 9

\* BufMutExt::put_lenenc_int
PutLenencInt(v) ==
    IF v < 251 THEN <<v>>
    ELSE IF v < 65536 THEN <<252>> \o LeBytes(v, 2)
    ELSE IF v < 16777216 THEN <<253>> \o LeBytes(v, 3)
    ELSE <<254>> \o LeBytes(v, 8)

Failed == [ok |-> FALSE, val |-> 0, rest |-> <<>>]

ReadUint(buf, n) ==
    IF Len(buf) < n THEN Failed
    ELSE [ok |-> TRUE, val |-> LeUint(SubSeq(buf, 1, n)), rest |-> Drop(buf, n)]

\* ReadMysqlExt::read_lenenc_int: an io::Result; ok = FALSE is the Err
ReadLenencInt(buf) ==
    IF buf = <<>> THEN Failed
    ELSE IF Head(buf) <= 250 THEN [ok |-> TRUE, val |-> Head(buf), rest |-> Tail(buf)]
    ELSE IF Head(buf) = 252 THEN ReadUint(Tail(buf), 2)
    ELSE IF Head(buf) = 253 THEN ReadUint(Tail(buf), 3)
    ELSE IF Head(buf) = 254 THEN ReadUint(Tail(buf), 8)
    ELSE Failed

\* ParseBuf::eat_lenenc_int: returns a bare u64, so running out of bytes
\* cannot be reported: ok = FALSE is the panic of the unchecked read
EatLenencInt(buf) ==
    IF buf = <<>> THEN Failed
    ELSE IF Head(buf) <= 250 THEN [ok |-> TRUE, val |-> Head(buf), rest |-> Tail(buf)]
    ELSE IF Head(buf) = 252 THEN ReadUint(Tail(buf), 2)
    ELSE IF Head(buf) = 253 THEN ReadUint(Tail(buf), 3)
    ELSE IF Head(buf) = 254 THEN ReadUint(Tail(buf), 8)
    ELSE [ok |-> TRUE, val |-> 0, rest |-> Tail(buf)]

\* ParseBuf::skip: returns nothing; ok = FALSE is the out-of-range panic
Skip(buf, cnt) ==
    IF cnt > Len(buf) THEN [ok |-> FALSE, rest |-> <<>>]
    ELSE [ok |-> TRUE, rest |-> Drop(buf, cnt)]

\* ParseBuf::parse(n) followed by eat_all: an io::Result
Parse(buf, n) ==
    IF n > Len(buf) THEN [ok |-> FALSE, taken |-> <<>>, rest |-> buf]
    ELSE [ok |-> TRUE, taken |-> SubSeq(buf, 1, n), rest |-> Drop(buf, n)]

----------------------------------------------------------------------------
(* The record *)

NoRecord == [none |-> TRUE]

new(payload_size, algorithm, uncompressed_size, payload) ==
    [payload_size |-> payload_size,
     algorithm |-> algorithm,
     uncompressed_size |-> uncompressed_size,
     payload |-> payload,
     header_size |-> 0]

with_payload_size(r, v) == [r EXCEPT !.payload_size = v]
with_algorithm(r, a) == [r EXCEPT !.algorithm = a]
with_uncompressed_size(r, v) == [r EXCEPT !.uncompressed_size = v]
with_payload(r, bs) == [r EXCEPT !.payload = bs]

----------------------------------------------------------------------------
(* deserialize: the locals and one operator per match arm *)

\* The locals after lines 135-144.  status, err, endSeen, remAtEnd, sliced,
\* tags and badAlg observe the run: how it ended, whether the terminator was
\* dispatched and with how many bytes left, whether buf.parse was called,
\* the tags dispatched so far, and whether try_from rejected an algorithm.
StartParser(buf) ==
    [buf |-> buf,
     ob |-> new(0, "NONE", 0, <<>>),
     have_payload_size |-> FALSE,
     have_compression_type |-> FALSE,
     original_buf_size |-> Len(buf),
     status |-> "running",
     err |-> "",
     endSeen |-> FALSE,
     remAtEnd |-> 0,
     sliced |-> FALSE,
     tags |-> <<>>,
     badAlg |-> FALSE]

IdleParser == [StartParser(<<>>) EXCEPT !.status = "idle"]

\* `Err(..)?` and a failing `?`: the error is returned to the caller
Fail(q, kind) == [q EXCEPT !.status = "Err", !.err = kind]

\* a panic unwinds out of deserialize: nothing is returned
Panic(q, what) == [q EXCEPT !.status = "Panic", !.err = what]

\* line 147
Tag(q) == ReadLenencInt(q.buf)

\* the cursor after a tag was read
AfterTag(q) == [q EXCEPT !.buf = Tag(q).rest, !.tags = Append(@, Tag(q).val)]

\* line 147, the `?` on a tag that cannot be read
TagFail(q) == Fail(q, "UnexpectedEof")

\* a terminator arm with the required-field test written with && for ||
EndMarkArmBothMissing(q) ==
    LET q1 == [q EXCEPT !.endSeen = TRUE, !.remAtEnd = Len(q.buf)]
        pb == Parse(q.buf, q.ob.payload_size)
    IN  IF ~q.have_payload_size /\ ~q.have_compression_type
        THEN Fail(q1, "MissingField")
        ELSE IF q.ob.payload_size > Len(q.buf)
        THEN Fail(q1, "PayloadExceedsBuffer")
        ELSE [q1 EXCEPT !.ob.header_size = q.original_buf_size - q.ob.payload_size,
                        !.ob.payload = pb.taken,
                        !.buf = pb.rest,
                        !.sliced = TRUE,
                        !.status = "Ok"]

\* a terminator arm without the test of payload_size against buf.len():
\* the overrun is then found by buf.parse
EndMarkArmNoBoundsCheck(q) ==
    LET q1 == [q EXCEPT !.endSeen = TRUE, !.remAtEnd = Len(q.buf)]
        pb == Parse(q.buf, q.ob.payload_size)
    IN  IF ~q.have_payload_size \/ ~q.have_compression_type
        THEN Fail(q1, "MissingField")
        ELSE IF ~pb.ok
        THEN Fail([q1 EXCEPT !.sliced = TRUE], "UnexpectedEof")
        ELSE [q1 EXCEPT !.ob.header_size = q.original_buf_size - q.ob.payload_size,
                        !.ob.payload = pb.taken,
                        !.buf = pb.rest,
                        !.sliced = TRUE,
                        !.status = "Ok"]

\* lines 150-171; q is the state after the tag was read
EndMarkArm(q) ==
    LET q1 == [q EXCEPT !.endSeen = TRUE, !.remAtEnd = Len(q.buf)]
        pb == Parse(q.buf, q.ob.payload_size)
    IN  IF ~q.have_payload_size \/ ~q.have_compression_type
        THEN Fail(q1, "MissingField")
        ELSE IF q.ob.payload_size > Len(q.buf)
        THEN Fail(q1, "PayloadExceedsBuffer")
        ELSE IF ~pb.ok
        THEN Fail([q1 EXCEPT !.sliced = TRUE], "UnexpectedEof")
        ELSE [q1 EXCEPT !.ob.header_size = q.original_buf_size - q.ob.payload_size,
                        !.ob.payload = pb.taken,
                        !.buf = pb.rest,
                        !.sliced = TRUE,
                        !.status = "Ok"]

\* lines 173-179
PayloadSizeArm(q) ==
    LET length == ReadLenencInt(q.buf)
        val == ReadLenencInt(length.rest)
    IN  IF ~length.ok \/ ~val.ok
        THEN Fail(q, "UnexpectedEof")
        ELSE [q EXCEPT !.buf = val.rest,
                       !.ob.payload_size = val.val,
                       !.have_payload_size = TRUE]

\* lines 180-186
CompressionTypeArm(q) ==
    LET length == ReadLenencInt(q.buf)
        val == ReadLenencInt(length.rest)
        alg == TryFromCompressionType(val.val)
    IN  IF ~length.ok \/ ~val.ok
        THEN Fail(q, "UnexpectedEof")
        ELSE IF ~alg.ok
        THEN Panic([q EXCEPT !.buf = val.rest, !.badAlg = TRUE], "unwrap")
        ELSE [q EXCEPT !.buf = val.rest,
                       !.ob.algorithm = alg.val,
                       !.have_compression_type = TRUE]

\* lines 187-192
UncompressedSizeArm(q) ==
    LET length == ReadLenencInt(q.buf)
        val == ReadLenencInt(length.rest)
    IN  IF ~length.ok \/ ~val.ok
        THEN Fail(q, "UnexpectedEof")
        ELSE [q EXCEPT !.buf = val.rest,
                       !.ob.uncompressed_size = val.val]

\* an unknown-tag arm that reads the length prefix and forgets buf.skip
UnknownFieldArmNoSkip(q) ==
    LET length == EatLenencInt(q.buf)
    IN  IF ~length.ok
        THEN Panic(q, "eat_lenenc_int")
        ELSE [q EXCEPT !.buf = length.rest]

\* lines 193-197
UnknownFieldArm(q) ==
    LET length == EatLenencInt(q.buf)
        skipped == Skip(length.rest, length.val)
    IN  IF ~length.ok
        THEN Panic(q, "eat_lenenc_int")
        ELSE IF ~skipped.ok
        THEN Panic([q EXCEPT !.buf = length.rest], "skip")
        ELSE [q EXCEPT !.buf = skipped.rest]

\* lines 145 and 201: the cursor is empty, the loop ends, Ok(ob)
LoopExit(q) == [q EXCEPT !.status = "Ok"]

\* one pass through the loop body, lines 145-199
Iteration(q) ==
    IF q.buf = <<>> THEN LoopExit(q)
    ELSE IF ~Tag(q).ok THEN TagFail(q)
    ELSE IF ~TryFromFields(Tag(q).val).ok THEN UnknownFieldArm(AfterTag(q))
    ELSE IF Tag(q).val = OTW_PAYLOAD_HEADER_END_MARK THEN EndMarkArm(AfterTag(q))
    ELSE IF Tag(q).val = OTW_PAYLOAD_SIZE_FIELD THEN PayloadSizeArm(AfterTag(q))
    ELSE IF Tag(q).val = OTW_PAYLOAD_COMPRESSION_TYPE_FIELD
    THEN CompressionTypeArm(AfterTag(q))
    ELSE UncompressedSizeArm(AfterTag(q))

RECURSIVE RunParser(_)
RunParser(q) == IF q.status # "running" THEN q ELSE RunParser(Iteration(q))

\* lines 134-202 as a function of the bytes
deserialize(buf) == RunParser(StartParser(buf))

----------------------------------------------------------------------------
(* serialize and decompress_payload *)

\* one (tag, inner-length, value) entry as lines 207-209 write it
PutField(tag, v) == PutLenencInt(tag) \o PutLenencInt(LenencIntLen(v)) \o PutLenencInt(v)

\* a serializer that writes the uncompressed-size field for NONE only
serializeFlipped(r) ==
    PutField(OTW_PAYLOAD_COMPRESSION_TYPE_FIELD, CompressionTypeAsU64(r.algorithm))
    \o (IF r.algorithm = "NONE"
        THEN PutField(OTW_PAYLOAD_UNCOMPRESSED_SIZE_FIELD, r.uncompressed_size)
        ELSE <<>>)
    \o PutField(OTW_PAYLOAD_SIZE_FIELD, r.payload_size)
    \o PutLenencInt(OTW_PAYLOAD_HEADER_END_MARK)
    \o r.payload

\* lines 206-226
serialize(r) ==
    PutField(OTW_PAYLOAD_COMPRESSION_TYPE_FIELD, CompressionTypeAsU64(r.algorithm))
    \o (IF r.algorithm # "NONE"
        THEN PutField(OTW_PAYLOAD_UNCOMPRESSED_SIZE_FIELD, r.uncompressed_size)
        ELSE <<>>)
    \o PutField(OTW_PAYLOAD_SIZE_FIELD, r.payload_size)
    \o PutLenencInt(OTW_PAYLOAD_HEADER_END_MARK)
    \o r.payload

\* zstd::stream::copy_decode into a buffer of `size` zero bytes: the library
\* either fails or overwrites a prefix of the buffer
CopyDecodeOutcomes(size) ==
    {[ok |-> FALSE, buf |-> Repeat(0, size)]}
    \cup {[ok |-> TRUE, buf |-> [i \in 1..size |-> IF i <= n THEN 7 ELSE 0]] :
            n \in 0..Min(size, MaxPlain)}

\* lines 96-108; d is the outcome of copy_decode.  The return type is Vec<u8>
decompress_payload(r, d) ==
    IF r.algorithm = "NONE"
    THEN [kind |-> "Vec", bytes |-> r.payload, decodeFailed |-> FALSE]
    ELSE IF ~d.ok
    THEN [kind |-> "Vec", bytes |-> <<>>, decodeFailed |-> TRUE]
    ELSE [kind |-> "Vec", bytes |-> d.buf, decodeFailed |-> FALSE]

----------------------------------------------------------------------------
(* The inputs *)

\* A chunk of a wire input.  kind "size", "comp", "usize": a well-formed known
\* field; "unknown": a well-formed field of an unknown tag (tag, length
\* prefix, exactly that many bytes); "bad": an unknown tag whose length
\* prefix is larger than its value.
Item(kind, bytes) == [kind |-> kind, bytes |-> bytes]

FieldItems ==
    {Item("size", PutField(OTW_PAYLOAD_SIZE_FIELD, v)) : v \in {0, 1, BigValue}}
    \cup {Item("comp", PutField(OTW_PAYLOAD_COMPRESSION_TYPE_FIELD, v)) : v \in {0, 1, 2}}
    \cup {Item("usize", PutField(OTW_PAYLOAD_UNCOMPRESSED_SIZE_FIELD, 1)),
          Item("unknown", <<UnknownTag, 1, 9>>),
          Item("bad", <<UnknownTag, 2, 9>>)}

Payloads == {Repeat(9, n) : n \in 0..MaxPayload}

\* What follows the field chunks: nothing, a terminator and the bytes after
\* it, or a field cut short (an unknown tag without length prefix, half a
\* three-byte integer, a size tag without value)
Tails ==
    {<<>>, <<UnknownTag>>, <<252>>, <<OTW_PAYLOAD_SIZE_FIELD, 1>>}
    \cup {PutLenencInt(OTW_PAYLOAD_HEADER_END_MARK) \o pl : pl \in Payloads}

RECURSIVE Flatten(_)
Flatten(items) ==
    IF items = <<>> THEN <<>> ELSE Head(items).bytes \o Flatten(Tail(items))

SizeValues == (0..MaxPayload) \cup {BigValue}

UncompressedValues == {0, 1, BigValue}

NoOutput == [kind |-> "none", bytes |-> <<>>, decodeFailed |-> FALSE]

----------------------------------------------------------------------------
(* The state machine *)

\* bytes arrive from the wire
InitWire ==
    /\ fields \in SeqsUpTo(FieldItems, MaxFields)
    /\ tail \in Tails
    /\ input = Flatten(fields) \o tail
    /\ phase = "wire"
    /\ rec = NoRecord

\* a record is constructed with new (lines 48-61)
InitBuilt ==
    /\ fields = <<>>
    /\ tail = <<>>
    /\ input = <<>>
    /\ phase = "record"
    /\ \E ps \in SizeValues, a \in CompressionTypes,
          us \in UncompressedValues, pl \in Payloads :
            rec = new(ps, a, us, pl)

Init ==
    /\ InitWire \/ InitBuilt
    /\ p = IdleParser
    /\ src = NoRecord
    /\ out = NoOutput
    /\ rounds = 0
    /\ edits = 0

HoldsRecord == phase \in {"record", "returned"} /\ rec # NoRecord

\* lines 135-144: deserialize is entered
DeserializeEnter ==
    /\ phase = "wire"
    /\ p' = StartParser(input)
    /\ phase' = "loop"
    /\ UNCHANGED <<fields, tail, input, rec, src, out, rounds, edits>>

\* the loop goes on, or deserialize ends and the caller has its result
Continue(q) ==
    /\ p' = q
    /\ phase' = IF q.status = "running" THEN "loop" ELSE "returned"
    /\ rec' = IF q.status = "Ok" THEN q.ob ELSE NoRecord
    /\ UNCHANGED <<fields, tail, input, src, out, rounds, edits>>

InLoop == phase = "loop" /\ p.buf # <<>>

ReadTagFail ==
    /\ InLoop
    /\ ~Tag(p).ok
    /\ Continue(TagFail(p))

ReadEndMark ==
    /\ InLoop
    /\ Tag(p).ok
    /\ Tag(p).val = OTW_PAYLOAD_HEADER_END_MARK
    /\ Continue(EndMarkArm(AfterTag(p)))

ReadPayloadSize ==
    /\ InLoop
    /\ Tag(p).ok
    /\ Tag(p).val = OTW_PAYLOAD_SIZE_FIELD
    /\ Continue(PayloadSizeArm(AfterTag(p)))

ReadCompressionType ==
    /\ InLoop
    /\ Tag(p).ok
    /\ Tag(p).val = OTW_PAYLOAD_COMPRESSION_TYPE_FIELD
    /\ Continue(CompressionTypeArm(AfterTag(p)))

ReadUncompressedSize ==
    /\ InLoop
    /\ Tag(p).ok
    /\ Tag(p).val = OTW_PAYLOAD_UNCOMPRESSED_SIZE_FIELD
    /\ Continue(UncompressedSizeArm(AfterTag(p)))

SkipUnknownField ==
    /\ InLoop
    /\ Tag(p).ok
    /\ ~TryFromFields(Tag(p).val).ok
    /\ Continue(UnknownFieldArm(AfterTag(p)))

ExitLoop ==
    /\ phase = "loop"
    /\ p.buf = <<>>
    /\ Continue(LoopExit(p))

\* the locals of a finished deserialize call and the bytes it read are gone
Forget ==
    /\ fields' = <<>>
    /\ tail' = <<>>
    /\ input' = <<>>
    /\ p' = IdleParser
    /\ src' = NoRecord

\* lines 64-83: a builder method takes the record and gives back a changed one
Edit(r) ==
    /\ HoldsRecord
    /\ edits < MaxEdits
    /\ rec' = r
    /\ phase' = "record"
    /\ edits' = edits + 1
    /\ Forget
    /\ UNCHANGED <<out, rounds>>

WithPayloadSize == \E v \in SizeValues : Edit(with_payload_size(rec, v))

WithAlgorithm == \E a \in CompressionTypes : Edit(with_algorithm(rec, a))

WithUncompressedSize == \E v \in UncompressedValues : Edit(with_uncompressed_size(rec, v))

WithPayload == \E pl \in Payloads : Edit(with_payload(rec, pl))

\* lines 206-226: the record is written out; the bytes go back to a parser
Serialize ==
    /\ HoldsRecord
    /\ rounds < MaxRounds
    /\ input' = serialize(rec)
    /\ src' = rec
    /\ rec' = NoRecord
    /\ fields' = <<>>
    /\ tail' = <<>>
    /\ p' = IdleParser
    /\ phase' = "wire"
    /\ rounds' = rounds + 1
    /\ UNCHANGED <<out, edits>>

\* lines 96-108: the record is consumed
DecompressPayload ==
    /\ HoldsRecord
    /\ \E d \in CopyDecodeOutcomes(rec.uncompressed_size) :
            out' = decompress_payload(rec, d)
    /\ rec' = NoRecord
    /\ phase' = "consumed"
    /\ Forget
    /\ UNCHANGED <<rounds, edits>>

Next ==
    \/ DeserializeEnter
    \/ ReadTagFail
    \/ ReadEndMark
    \/ ReadPayloadSize
    \/ ReadCompressionType
    \/ ReadUncompressedSize
    \/ SkipUnknownField
    \/ ExitLoop
    \/ WithPayloadSize
    \/ WithAlgorithm
    \/ WithUncompressedSize
    \/ WithPayload
    \/ Serialize
    \/ DecompressPayload

Spec == Init /\ [][Next]_vars

----------------------------------------------------------------------------
(* Properties *)

Range(f) == {f[i] : i \in DOMAIN f}

Returned == p.status \in {"Ok", "Err", "Panic"}

\* the bytes parsed were assembled from `fields` and `tail`
FromWire == rounds = 0 /\ p.status # "idle"

\* the bytes parsed were written by serialize from `src`
RoundTripDone == phase = "returned" /\ src # NoRecord

\* C1: whatever the input bytes, deserialize ends by returning a record or an
\* error to its caller; it never panics.
DeserializeNeverPanics == p.status # "Panic"

\* C2: a compression-type value that is no known algorithm makes deserialize
\* return an "unrecognized algorithm" error; it is neither defaulted nor a
\* panic.
UnknownAlgorithmIsError ==
    p.badAlg => (p.status = "Err" /\ p.err = "UnknownAlgorithm")

\* C3: once the terminator is read with both required fields seen, a
\* payload_size larger than the bytes left fails with "payload exceeds
\* buffer" without buf.parse having been called, and every slice taken has
\* length payload_size, at most the bytes that were left.
PayloadBoundsChecked ==
    /\ (p.endSeen /\ p.have_payload_size /\ p.have_compression_type
            /\ p.ob.payload_size > p.remAtEnd)
        => (p.status = "Err" /\ p.err = "PayloadExceedsBuffer" /\ ~p.sliced)
    /\ p.sliced
        => (p.status = "Ok" /\ Len(p.ob.payload) = p.ob.payload_size
            /\ p.ob.payload_size <= p.remAtEnd)

\* C3 witness: the terminator was read with both fields seen and a declared
\* size beyond the bytes left, and the parse was refused.
OverrunRefused ==
    /\ p.endSeen
    /\ p.have_payload_size /\ p.have_compression_type
    /\ p.ob.payload_size > p.remAtEnd
    /\ p.status = "Err"

\* C4: when deserialize ends without having read a terminator, it ends with
\* an error and returns no record.
NoRecordWithoutTerminator ==
    (Returned /\ ~p.endSeen /\ p.status # "Panic") => p.status = "Err"

\* C5: when the terminator is read, deserialize succeeds only if a
\* payload-size field and a compression-type field were read before it, in
\* whatever order and whatever else was read; with one of them missing it
\* fails with the "missing field" error.
RequiredFieldsChecked ==
    p.endSeen =>
        LET both == /\ OTW_PAYLOAD_SIZE_FIELD \in Range(p.tags)
                    /\ OTW_PAYLOAD_COMPRESSION_TYPE_FIELD \in Range(p.tags)
        IN  /\ p.status = "Ok" => both
            /\ ~both => (p.status = "Err" /\ p.err = "MissingField")

\* C5 witness: a terminator read after a compression-type field and an
\* unknown field but no payload-size field, refused.
MissingSizeRefused ==
    /\ p.endSeen
    /\ OTW_PAYLOAD_COMPRESSION_TYPE_FIELD \in Range(p.tags)
    /\ UnknownTag \in Range(p.tags)
    /\ OTW_PAYLOAD_SIZE_FIELD \notin Range(p.tags)
    /\ p.err = "MissingField"

\* C6: a record with algorithm NONE whose payload_size is its payload's
\* length, serialized and parsed again, gives a record equal to it in all
\* five fields, and the bytes hold no uncompressed-size field.
RoundTripNoneEqual ==
    (RoundTripDone /\ src.algorithm = "NONE"
        /\ src.payload_size = Len(src.payload))
    => /\ p.status = "Ok"
       /\ p.ob = src
       /\ OTW_PAYLOAD_UNCOMPRESSED_SIZE_FIELD \notin Range(p.tags)

\* C7 as claimed: any record with an algorithm other than NONE, serialized
\* and parsed again, parses and keeps algorithm, uncompressed_size and
\* payload.
RoundTripCompressedAny ==
    (RoundTripDone /\ src.algorithm # "NONE")
    => /\ p.status = "Ok"
       /\ p.ob.algorithm = src.algorithm
       /\ p.ob.uncompressed_size = src.uncompressed_size
       /\ p.ob.payload = src.payload

\* C7 amended: a record with an algorithm other than NONE whose payload_size
\* is its payload's length, serialized and parsed again, parses and keeps
\* algorithm, uncompressed_size and payload.
RoundTripCompressedValid ==
    (RoundTripDone /\ src.algorithm # "NONE"
        /\ src.payload_size = Len(src.payload))
    => /\ p.status = "Ok"
       /\ p.ob.algorithm = src.algorithm
       /\ p.ob.uncompressed_size = src.uncompressed_size
       /\ p.ob.payload = src.payload

\* C7 witness: a compressed record with a three-byte uncompressed size and a
\* non-empty payload went through serialize and deserialize.
CompressedRoundTripped ==
    /\ RoundTripDone
    /\ src.algorithm = "ZSTD"
    /\ src.uncompressed_size = BigValue
    /\ src.payload # <<>>
    /\ src.payload_size = Len(src.payload)
    /\ p.status = "Ok"

IsKnownItem(it) == it.kind # "unknown"

WithoutUnknown == Flatten(SelectSeq(fields, IsKnownItem)) \o tail

UnknownAllWellFormed == \A i \in DOMAIN fields : fields[i].kind # "bad"

\* C8: a header whose unknown fields are all well-formed parses to the same
\* payload_size, algorithm, uncompressed_size and payload as the header with
\* the unknown fields removed, whenever that one parses up to its
\* terminator.
UnknownFieldsIgnored ==
    (phase = "returned" /\ FromWire /\ UnknownAllWellFormed)
    => LET q == deserialize(WithoutUnknown)
       IN  (q.status = "Ok" /\ q.endSeen)
           => /\ p.status = "Ok"
              /\ p.endSeen
              /\ p.ob.payload_size = q.ob.payload_size
              /\ p.ob.algorithm = q.ob.algorithm
              /\ p.ob.uncompressed_size = q.ob.uncompressed_size
              /\ p.ob.payload = q.ob.payload

\* C8 witness: a header with an unknown field between its two required
\* fields parsed to a record with a payload.
UnknownFieldSkipped ==
    /\ phase = "returned"
    /\ FromWire
    /\ UnknownAllWellFormed
    /\ Len(fields) = 3
    /\ fields[2].kind = "unknown"
    /\ p.status = "Ok"
    /\ p.endSeen
    /\ p.ob.payload # <<>>

\* C9: when the decompressor fails, decompress_payload gives its caller an
\* error, not an empty byte vector.
DecompressFailureReported ==
    out.decodeFailed => (out.kind = "Err" /\ ~(out.kind = "Vec" /\ out.bytes = <<>>))

\* C10: after every parse that succeeded through the terminator, header_size
\* is the number of bytes consumed up to and including the terminator.
HeaderSizeIsConsumed ==
    (p.status = "Ok" /\ p.endSeen)
    => p.ob.header_size = p.original_buf_size - p.remAtEnd

====
